---- MODULE Spec2Model ----
(***************************************************************************)
(* Model of pysph/sph/integrator.py: the IntegratorStep subclasses         *)
(* (EulerStep, WCSPHStep, SolidMechStep, TransportVelocityStep,            *)
(* AdamiVerletStep) and the Integrator class that binds one stepper to     *)
(* each named particle array.                                              *)
(*                                                                         *)
(* Field values are Python floats.  They are modelled as exact rationals   *)
(* <<numerator, denominator>> in lowest terms; the inputs of the model     *)
(* are small dyadic numbers, on which the float operations of the source   *)
(* are exact as well.                                                      *)
(***************************************************************************)
EXTENDS Integers, Sequences, FiniteSets, TLC

VARIABLES
    arrays,      \* particle arrays: name -> (property -> (index -> value))
    steppers,    \* Integrator.steppers: destination name -> stepper class
    integrator,  \* Integrator.integrator: None, or the compiled integrator
    dt_cfl,      \* integrator.sph_calc.dt_cfl, set by the force evaluation
    ret,         \* what the last call returned or raised
    calls,       \* stepper calls made by the last integrate, in order
    last,        \* the last operation: its name and arguments
    count        \* how many of the bounded operations were done so far

vars == <<arrays, steppers, integrator, dt_cfl, ret, calls, last, count>>

(***************************************************************************)
(* Bounds of the model.                                                    *)
(***************************************************************************)
\* particles in a non-empty particle array
NP == 2
\* stepper phase calls in one behaviour of StepSpec
MaxOps == 3
\* integrate calls in one behaviour of Spec
MaxIntegrate == 1

None == "None"
\* self.integrator = None
NoIntegrator == [kind |-> "None"]

(***************************************************************************)
(* Float arithmetic, as exact rationals.                                   *)
(***************************************************************************)
Abs(n) == IF n < 0 THEN -n ELSE n

RECURSIVE GCD(_, _)
GCD(a, b) == IF b = 0 THEN a ELSE GCD(b, a % b)

\* n/d in lowest terms, d > 0
Norm(n, d) == IF n = 0 THEN <<0, 1>>
              ELSE LET g == GCD(Abs(n), d) IN <<n \div g, d \div g>>

R(n) == <<n, 1>>
Half == <<1, 2>>

RAdd(a, b) == Norm(a[1] * b[2] + b[1] * a[2], a[2] * b[2])
RMul(a, b) == Norm(a[1] * b[1], a[2] * b[2])
\* a / b for b # 0
RDiv(a, b) == IF b[1] > 0 THEN Norm(a[1] * b[2], a[2] * b[1])
              ELSE Norm(-(a[1] * b[2]), -(a[2] * b[1]))
RLt(a, b) == a[1] * b[2] < b[1] * a[2]
RLe(a, b) == a[1] * b[2] <= b[1] * a[2]

(***************************************************************************)
(* Array statements of the stepper methods.                                *)
(***************************************************************************)
\* d_f[d_idx] = val
SetItem(pa, f, d_idx, val) == [pa EXCEPT ![f][d_idx] = val]

\* d_f[d_idx] += c*d_r[d_idx]
IAdd(pa, f, d_idx, c, r) ==
    SetItem(pa, f, d_idx, RAdd(pa[f][d_idx], RMul(c, pa[r][d_idx])))

\* d_f[d_idx] = d_f0[d_idx] + c*d_r[d_idx]
Assign(pa, f, f0, d_idx, c, r) ==
    SetItem(pa, f, d_idx, RAdd(pa[f0][d_idx], RMul(c, pa[r][d_idx])))

\* d_f0[d_idx] = d_f[d_idx]
Copy(pa, f0, f, d_idx) == SetItem(pa, f0, d_idx, pa[f][d_idx])

(***************************************************************************)
(* IntegratorStep: the base class, every phase a no-op.                    *)
(***************************************************************************)
IntegratorStep_initialize(pa) == pa
IntegratorStep_predictor(pa) == pa
IntegratorStep_corrector(pa) == pa

(***************************************************************************)
(* EulerStep                                                               *)
(***************************************************************************)
EulerStep_initialize(pa) == pa
EulerStep_predictor(pa) == pa

\* EulerStep.corrector with the positions advanced before the velocities.
EulerStep_corrector_PositionFirst(pa, d_idx, dt) ==
    LET p1 == IAdd(pa, "x", d_idx, dt, "u")
        p2 == IAdd(p1, "y", d_idx, dt, "v")
        p3 == IAdd(p2, "z", d_idx, dt, "w")
        p4 == IAdd(p3, "u", d_idx, dt, "au")
        p5 == IAdd(p4, "v", d_idx, dt, "av")
        p6 == IAdd(p5, "w", d_idx, dt, "aw")
    IN  IAdd(p6, "rho", d_idx, dt, "arho")

EulerStep_corrector(pa, d_idx, dt) ==
    LET p1 == IAdd(pa, "u", d_idx, dt, "au")
        p2 == IAdd(p1, "v", d_idx, dt, "av")
        p3 == IAdd(p2, "w", d_idx, dt, "aw")
        p4 == IAdd(p3, "x", d_idx, dt, "u")
        p5 == IAdd(p4, "y", d_idx, dt, "v")
        p6 == IAdd(p5, "z", d_idx, dt, "w")
    IN  IAdd(p6, "rho", d_idx, dt, "arho")

(***************************************************************************)
(* WCSPHStep                                                               *)
(***************************************************************************)
\* WCSPHStep.initialize without the snapshot of rho.
WCSPHStep_initialize_NoRho(pa, d_idx) ==
    LET p1 == Copy(pa, "x0", "x", d_idx)
        p2 == Copy(p1, "y0", "y", d_idx)
        p3 == Copy(p2, "z0", "z", d_idx)
        p4 == Copy(p3, "u0", "u", d_idx)
        p5 == Copy(p4, "v0", "v", d_idx)
    IN  Copy(p5, "w0", "w", d_idx)

WCSPHStep_initialize(pa, d_idx) ==
    LET p1 == Copy(pa, "x0", "x", d_idx)
        p2 == Copy(p1, "y0", "y", d_idx)
        p3 == Copy(p2, "z0", "z", d_idx)
        p4 == Copy(p3, "u0", "u", d_idx)
        p5 == Copy(p4, "v0", "v", d_idx)
        p6 == Copy(p5, "w0", "w", d_idx)
    IN  Copy(p6, "rho0", "rho", d_idx)

\* WCSPHStep.predictor with the positions advanced by the new velocities.
WCSPHStep_predictor_Velocity(pa, d_idx, dt) ==
    LET dtb2 == RMul(Half, dt)
        p1 == Assign(pa, "u", "u0", d_idx, dtb2, "au")
        p2 == Assign(p1, "v", "v0", d_idx, dtb2, "av")
        p3 == Assign(p2, "w", "w0", d_idx, dtb2, "aw")
        p4 == Assign(p3, "x", "x0", d_idx, dtb2, "u")
        p5 == Assign(p4, "y", "y0", d_idx, dtb2, "v")
        p6 == Assign(p5, "z", "z0", d_idx, dtb2, "w")
    IN  Assign(p6, "rho", "rho0", d_idx, dtb2, "arho")

WCSPHStep_predictor(pa, d_idx, dt) ==
    LET dtb2 == RMul(Half, dt)
        p1 == Assign(pa, "u", "u0", d_idx, dtb2, "au")
        p2 == Assign(p1, "v", "v0", d_idx, dtb2, "av")
        p3 == Assign(p2, "w", "w0", d_idx, dtb2, "aw")
        p4 == Assign(p3, "x", "x0", d_idx, dtb2, "ax")
        p5 == Assign(p4, "y", "y0", d_idx, dtb2, "ay")
        p6 == Assign(p5, "z", "z0", d_idx, dtb2, "az")
    IN  Assign(p6, "rho", "rho0", d_idx, dtb2, "arho")

\* WCSPHStep.corrector with the half step left in the density update.
WCSPHStep_corrector_HalfRho(pa, d_idx, dt) ==
    LET p1 == Assign(pa, "u", "u0", d_idx, dt, "au")
        p2 == Assign(p1, "v", "v0", d_idx, dt, "av")
        p3 == Assign(p2, "w", "w0", d_idx, dt, "aw")
        p4 == Assign(p3, "x", "x0", d_idx, dt, "ax")
        p5 == Assign(p4, "y", "y0", d_idx, dt, "ay")
        p6 == Assign(p5, "z", "z0", d_idx, dt, "az")
    IN  Assign(p6, "rho", "rho0", d_idx, RMul(Half, dt), "arho")

WCSPHStep_corrector(pa, d_idx, dt) ==
    LET p1 == Assign(pa, "u", "u0", d_idx, dt, "au")
        p2 == Assign(p1, "v", "v0", d_idx, dt, "av")
        p3 == Assign(p2, "w", "w0", d_idx, dt, "aw")
        p4 == Assign(p3, "x", "x0", d_idx, dt, "ax")
        p5 == Assign(p4, "y", "y0", d_idx, dt, "ay")
        p6 == Assign(p5, "z", "z0", d_idx, dt, "az")
    IN  Assign(p6, "rho", "rho0", d_idx, dt, "arho")

(***************************************************************************)
(* SolidMechStep                                                           *)
(***************************************************************************)
SolidMechStep_initialize(pa, d_idx) ==
    LET p1 == Copy(pa, "x0", "x", d_idx)
        p2 == Copy(p1, "y0", "y", d_idx)
        p3 == Copy(p2, "z0", "z", d_idx)
        p4 == Copy(p3, "u0", "u", d_idx)
        p5 == Copy(p4, "v0", "v", d_idx)
        p6 == Copy(p5, "w0", "w", d_idx)
        p7 == Copy(p6, "rho0", "rho", d_idx)
        p8 == Copy(p7, "e0", "e", d_idx)
        p9 == Copy(p8, "s000", "s00", d_idx)
        p10 == Copy(p9, "s010", "s01", d_idx)
        p11 == Copy(p10, "s020", "s02", d_idx)
        p12 == Copy(p11, "s110", "s11", d_idx)
        p13 == Copy(p12, "s120", "s12", d_idx)
    IN  Copy(p13, "s220", "s22", d_idx)

SolidMechStep_predictor(pa, d_idx, dt) ==
    LET dtb2 == RMul(Half, dt)
        p1 == Assign(pa, "u", "u0", d_idx, dtb2, "au")
        p2 == Assign(p1, "v", "v0", d_idx, dtb2, "av")
        p3 == Assign(p2, "w", "w0", d_idx, dtb2, "aw")
        p4 == Assign(p3, "x", "x0", d_idx, dtb2, "ax")
        p5 == Assign(p4, "y", "y0", d_idx, dtb2, "ay")
        p6 == Assign(p5, "z", "z0", d_idx, dtb2, "az")
        p7 == Assign(p6, "rho", "rho0", d_idx, dtb2, "arho")
        p8 == Assign(p7, "e", "e0", d_idx, dtb2, "ae")
        p9 == Assign(p8, "s00", "s000", d_idx, dtb2, "as00")
        p10 == Assign(p9, "s01", "s010", d_idx, dtb2, "as01")
        p11 == Assign(p10, "s02", "s020", d_idx, dtb2, "as02")
        p12 == Assign(p11, "s11", "s110", d_idx, dtb2, "as11")
        p13 == Assign(p12, "s12", "s120", d_idx, dtb2, "as12")
    IN  Assign(p13, "s22", "s220", d_idx, dtb2, "as22")

\* SolidMechStep.corrector with the energy advanced from its live value.
SolidMechStep_corrector_LiveEnergy(pa, d_idx, dt) ==
    LET p1 == Assign(pa, "u", "u0", d_idx, dt, "au")
        p2 == Assign(p1, "v", "v0", d_idx, dt, "av")
        p3 == Assign(p2, "w", "w0", d_idx, dt, "aw")
        p4 == Assign(p3, "x", "x0", d_idx, dt, "ax")
        p5 == Assign(p4, "y", "y0", d_idx, dt, "ay")
        p6 == Assign(p5, "z", "z0", d_idx, dt, "az")
        p7 == Assign(p6, "rho", "rho0", d_idx, dt, "arho")
        p8 == Assign(p7, "e", "e", d_idx, dt, "ae")
        p9 == Assign(p8, "s00", "s000", d_idx, dt, "as00")
        p10 == Assign(p9, "s01", "s010", d_idx, dt, "as01")
        p11 == Assign(p10, "s02", "s020", d_idx, dt, "as02")
        p12 == Assign(p11, "s11", "s110", d_idx, dt, "as11")
        p13 == Assign(p12, "s12", "s120", d_idx, dt, "as12")
    IN  Assign(p13, "s22", "s220", d_idx, dt, "as22")

SolidMechStep_corrector(pa, d_idx, dt) ==
    LET p1 == Assign(pa, "u", "u0", d_idx, dt, "au")
        p2 == Assign(p1, "v", "v0", d_idx, dt, "av")
        p3 == Assign(p2, "w", "w0", d_idx, dt, "aw")
        p4 == Assign(p3, "x", "x0", d_idx, dt, "ax")
        p5 == Assign(p4, "y", "y0", d_idx, dt, "ay")
        p6 == Assign(p5, "z", "z0", d_idx, dt, "az")
        p7 == Assign(p6, "rho", "rho0", d_idx, dt, "arho")
        p8 == Assign(p7, "e", "e0", d_idx, dt, "ae")
        p9 == Assign(p8, "s00", "s000", d_idx, dt, "as00")
        p10 == Assign(p9, "s01", "s010", d_idx, dt, "as01")
        p11 == Assign(p10, "s02", "s020", d_idx, dt, "as02")
        p12 == Assign(p11, "s11", "s110", d_idx, dt, "as11")
        p13 == Assign(p12, "s12", "s120", d_idx, dt, "as12")
    IN  Assign(p13, "s22", "s220", d_idx, dt, "as22")

(***************************************************************************)
(* TransportVelocityStep                                                   *)
(***************************************************************************)
TransportVelocityStep_initialize(pa) == pa

TransportVelocityStep_predictor(pa, d_idx, dt) ==
    LET dtb2 == RMul(Half, dt)
        p1 == IAdd(pa, "u", d_idx, dtb2, "au")
        p2 == IAdd(p1, "v", d_idx, dtb2, "av")
        p3 == Assign(p2, "uhat", "u", d_idx, dtb2, "auhat")
        p4 == Assign(p3, "vhat", "v", d_idx, dtb2, "avhat")
        p5 == IAdd(p4, "x", d_idx, dt, "uhat")
    IN  IAdd(p5, "y", d_idx, dt, "vhat")

\* d_vmag[d_idx] = d_u[d_idx]*d_u[d_idx] + d_v[d_idx]*d_v[d_idx]
SetVmag(pa, d_idx) ==
    SetItem(pa, "vmag", d_idx,
            RAdd(RMul(pa["u"][d_idx], pa["u"][d_idx]),
                 RMul(pa["v"][d_idx], pa["v"][d_idx])))

TransportVelocityStep_corrector(pa, d_idx, dt) ==
    LET dtb2 == RMul(Half, dt)
        p1 == IAdd(pa, "u", d_idx, dtb2, "au")
        p2 == IAdd(p1, "v", d_idx, dtb2, "av")
    IN  SetVmag(p2, d_idx)

(***************************************************************************)
(* AdamiVerletStep                                                         *)
(***************************************************************************)
AdamiVerletStep_initialize(pa) == pa

AdamiVerletStep_predictor(pa, d_idx, dt) ==
    LET dtb2 == RMul(Half, dt)
        p1 == IAdd(pa, "u", d_idx, dtb2, "au")
        p2 == IAdd(p1, "v", d_idx, dtb2, "av")
        p3 == IAdd(p2, "x", d_idx, dtb2, "u")
    IN  IAdd(p3, "y", d_idx, dtb2, "v")

AdamiVerletStep_corrector(pa, d_idx, dt) ==
    LET dtb2 == RMul(Half, dt)
        p1 == IAdd(pa, "u", d_idx, dtb2, "au")
        p2 == IAdd(p1, "v", d_idx, dtb2, "av")
        p3 == IAdd(p2, "x", d_idx, dtb2, "u")
        p4 == IAdd(p3, "y", d_idx, dtb2, "v")
        p5 == IAdd(p4, "rho", d_idx, dt, "arho")
    IN  SetVmag(p5, d_idx)

(***************************************************************************)
(* Argument names.  A name such as d_x is kept as its two-character prefix *)
(* and the rest, so that n[2:] and n.startswith('d_') can be computed.     *)
(***************************************************************************)
Arg(prefix, rest) == [prefix |-> prefix, rest |-> rest]
Self == Arg("", "self")
DtArg == Arg("", "dt")
D(names) == [i \in DOMAIN names |-> Arg("d_", names[i])]

Classes == {"EulerStep", "WCSPHStep", "SolidMechStep",
            "TransportVelocityStep", "AdamiVerletStep"}
Methods == <<"initialize", "predictor", "corrector">>

\* The parameter list of each method, as written in the class.
Signature(cls, method) ==
    CASE cls = "EulerStep" /\ method = "corrector" ->
           <<Self>> \o D(<<"idx", "u", "v", "w", "au", "av", "aw", "x", "y",
                           "z", "rho", "arho">>) \o <<DtArg>>
      [] cls = "WCSPHStep" /\ method = "initialize" ->
           <<Self>> \o D(<<"idx", "x0", "y0", "z0", "x", "y", "z",
                           "u0", "v0", "w0", "u", "v", "w", "rho0", "rho">>)
      [] cls = "WCSPHStep" /\ method \in {"predictor", "corrector"} ->
           <<Self>> \o D(<<"idx", "x0", "y0", "z0", "x", "y", "z",
                           "u0", "v0", "w0", "u", "v", "w", "rho0", "rho",
                           "au", "av", "aw", "ax", "ay", "az", "arho">>)
              \o <<DtArg>>
      [] cls = "SolidMechStep" /\ method = "initialize" ->
           <<Self>> \o D(<<"idx", "x0", "y0", "z0", "x", "y", "z",
                           "u0", "v0", "w0", "u", "v", "w", "rho0", "rho",
                           "s00", "s01", "s02", "s11", "s12", "s22",
                           "s000", "s010", "s020", "s110", "s120", "s220",
                           "e0", "e">>)
      [] cls = "SolidMechStep" /\ method = "predictor" ->
           <<Self>> \o D(<<"idx", "x0", "y0", "z0", "x", "y", "z",
                           "u0", "v0", "w0", "u", "v", "w", "rho0", "rho",
                           "au", "av", "aw", "ax", "ay", "az", "arho",
                           "e", "e0", "ae",
                           "s00", "s01", "s02", "s11", "s12", "s22",
                           "s000", "s010", "s020", "s110", "s120", "s220",
                           "as00", "as01", "as02", "as11", "as12", "as22">>)
              \o <<DtArg>>
      [] cls = "SolidMechStep" /\ method = "corrector" ->
           <<Self>> \o D(<<"idx", "x0", "y0", "z0", "x", "y", "z",
                           "u0", "v0", "w0", "u", "v", "w", "rho0", "rho",
                           "au", "av", "aw", "ax", "ay", "az", "arho",
                           "e", "ae", "e0",
                           "s00", "s01", "s02", "s11", "s12", "s22",
                           "s000", "s010", "s020", "s110", "s120", "s220",
                           "as00", "as01", "as02", "as11", "as12", "as22">>)
              \o <<DtArg>>
      [] cls = "TransportVelocityStep" /\ method = "predictor" ->
           <<Self>> \o D(<<"idx", "u", "v", "au", "av", "uhat", "auhat",
                           "vhat", "avhat", "x", "y">>) \o <<DtArg>>
      [] cls = "TransportVelocityStep" /\ method = "corrector" ->
           <<Self>> \o D(<<"idx", "u", "v", "au", "av", "vmag">>)
              \o <<DtArg>>
      [] cls = "AdamiVerletStep" /\ method = "predictor" ->
           <<Self>> \o D(<<"idx", "u", "v", "au", "av", "x", "y">>)
              \o <<DtArg>>
      [] cls = "AdamiVerletStep" /\ method = "corrector" ->
           <<Self>> \o D(<<"idx", "u", "v", "au", "av", "x", "y", "rho",
                           "arho", "vmag">>) \o <<DtArg>>
      [] OTHER -> <<Self>>

(***************************************************************************)
(* Integrator: the code generation helpers.                                *)
(***************************************************************************)
\* Integrator.get_args: the argument names of steppers[dest].method
get_args(st, dest, method) == Signature(st[dest], method)

\* pysph.sph.equation.get_array_names: (source arrays, destination arrays)
get_array_names(symbols) ==
    LET names == {symbols[i] : i \in DOMAIN symbols}
    IN  << {n \in names : n.prefix = "s_" /\ n.rest # "idx"},
           {n \in names : n.prefix = "d_" /\ n.rest # "idx"} >>

\* Integrator.get_array_setup: one line "<n> = dst.<n[2:]>.data" per array;
\* the model keeps, per line, the property of dst that the line reads.
get_array_setup(st, dest, method) ==
    LET sd == get_array_names(get_args(st, dest, method))
    IN  {n.rest : n \in sd[1] \cup sd[2]}

\* Integrator.get_array_declarations: the arrays declared for a method
get_array_declarations(st, method) ==
    UNION { LET sd == get_array_names(get_args(st, dest, method))
            IN  sd[1] \cup sd[2] : dest \in DOMAIN st }

\* args.remove('self')
RemoveSelf(args) == SelectSeq(args, LAMBDA a : a # Self)

\* get_stepper_loop with the method name fixed.
get_stepper_loop_Corrector(st, dest, method) ==
    [obj |-> dest, method |-> "corrector",
     args |-> RemoveSelf(get_args(st, dest, "corrector"))]

\* Integrator.get_stepper_loop: the call "self.<dest>_stepper.<method>(<args>)"
get_stepper_loop(st, dest, method) ==
    [obj |-> dest, method |-> method,
     args |-> RemoveSelf(get_args(st, dest, method))]

\* The call of a stepper method for one particle: method `method` of an
\* instance of class `cls`, on the arrays of pa, at d_idx, with step dt.
CallStepper(cls, method, pa, d_idx, dt) ==
    CASE cls = "EulerStep" /\ method = "initialize" -> EulerStep_initialize(pa)
      [] cls = "EulerStep" /\ method = "predictor" -> EulerStep_predictor(pa)
      [] cls = "EulerStep" /\ method = "corrector" ->
           EulerStep_corrector(pa, d_idx, dt)
      [] cls = "WCSPHStep" /\ method = "initialize" ->
           WCSPHStep_initialize(pa, d_idx)
      [] cls = "WCSPHStep" /\ method = "predictor" ->
           WCSPHStep_predictor(pa, d_idx, dt)
      [] cls = "WCSPHStep" /\ method = "corrector" ->
           WCSPHStep_corrector(pa, d_idx, dt)
      [] cls = "SolidMechStep" /\ method = "initialize" ->
           SolidMechStep_initialize(pa, d_idx)
      [] cls = "SolidMechStep" /\ method = "predictor" ->
           SolidMechStep_predictor(pa, d_idx, dt)
      [] cls = "SolidMechStep" /\ method = "corrector" ->
           SolidMechStep_corrector(pa, d_idx, dt)
      [] cls = "TransportVelocityStep" /\ method = "initialize" ->
           TransportVelocityStep_initialize(pa)
      [] cls = "TransportVelocityStep" /\ method = "predictor" ->
           TransportVelocityStep_predictor(pa, d_idx, dt)
      [] cls = "TransportVelocityStep" /\ method = "corrector" ->
           TransportVelocityStep_corrector(pa, d_idx, dt)
      [] cls = "AdamiVerletStep" /\ method = "initialize" ->
           AdamiVerletStep_initialize(pa)
      [] cls = "AdamiVerletStep" /\ method = "predictor" ->
           AdamiVerletStep_predictor(pa, d_idx, dt)
      [] cls = "AdamiVerletStep" /\ method = "corrector" ->
           AdamiVerletStep_corrector(pa, d_idx, dt)

(***************************************************************************)
(* Particle arrays (pysph.base.particle_array.ParticleArray): named        *)
(* properties, each an array of one double per particle.                   *)
(***************************************************************************)
AllProps == <<"x", "y", "z", "u", "v", "w", "rho", "e",
              "s00", "s01", "s02", "s11", "s12", "s22",
              "x0", "y0", "z0", "u0", "v0", "w0", "rho0", "e0",
              "s000", "s010", "s020", "s110", "s120", "s220",
              "ax", "ay", "az", "au", "av", "aw", "arho", "ae",
              "as00", "as01", "as02", "as11", "as12", "as22",
              "uhat", "vhat", "auhat", "avhat", "vmag", "h">>

\* The properties the force evaluation fills in before a phase runs.
RateProps == {"ax", "ay", "az", "au", "av", "aw", "arho", "ae",
              "as00", "as01", "as02", "as11", "as12", "as22",
              "auhat", "avhat"}

PropNo(f) == CHOOSE i \in DOMAIN AllProps : AllProps[i] = f

\* Input values: small integers, different from property to property.
InitValue(f, i, p) == R(((PropNo(f) * 5 + i * 3 + p * 4) % 7) - 3)
RateValue(f, i, q) == R(((PropNo(f) * 3 + i + q * 2) % 5) - 2)

Profiles == {0, 1}
DtSet == {R(0), Half}

\* A particle array with the properties props and n particles.
NewArray(props, n, p) ==
    [f \in props |-> [i \in 0 .. n - 1 |-> InitValue(f, i, p)]]

\* The force evaluation: new values in every rate property of pa.
WithRates(pa, q) ==
    [f \in DOMAIN pa |->
        IF f \in RateProps
        THEN [i \in DOMAIN pa[f] |-> RateValue(f, i, q)]
        ELSE pa[f]]

\* The properties the three methods of a stepper class name, and h.
StepperProps(cls) ==
    UNION {get_array_setup([fluid |-> cls], "fluid", Methods[k]) :
             k \in DOMAIN Methods} \cup {"h"}

NoPrev == <<None, None, -1>>

\* The record of a stepper call, with the call before it.
Op(op, dest, idx, dt) ==
    [op |-> op, dest |-> dest, idx |-> idx, dt |-> dt,
     prev |-> <<last.op, last.dest, last.idx>>]

\* The record of a call on the Integrator.
Call(op, dest, dt) ==
    [op |-> op, dest |-> dest, idx |-> -1, dt |-> dt, prev |-> NoPrev]

(***************************************************************************)
(* StepSpec: the methods of one stepper called on the particles of one     *)
(* particle array, in any order, with the force evaluation in between.     *)
(***************************************************************************)
StepInit ==
    \E cls \in Classes, p \in Profiles :
        /\ steppers = [fluid |-> cls]
        /\ arrays = [fluid |-> NewArray(StepperProps(cls), NP, p)]
        /\ integrator = NoIntegrator
        /\ dt_cfl = R(0)
        /\ ret = None
        /\ calls = <<>>
        /\ last = [op |-> "init", dest |-> None, idx |-> -1, dt |-> R(0),
                   prev |-> NoPrev]
        /\ count = [ops |-> 0]

StepCall(method, dest, d_idx, dt) ==
    /\ count.ops < MaxOps
    /\ arrays' = [arrays EXCEPT
                    ![dest] = CallStepper(steppers[dest], method, @, d_idx, dt)]
    /\ last' = Op(method, dest, d_idx, dt)
    /\ count' = [ops |-> count.ops + 1]
    /\ UNCHANGED <<steppers, integrator, dt_cfl, ret, calls>>

StepInitialize ==
    \E dest \in DOMAIN steppers : \E d_idx \in DOMAIN arrays[dest]["h"] :
        StepCall("initialize", dest, d_idx, R(0))

StepPredictor ==
    \E dest \in DOMAIN steppers : \E d_idx \in DOMAIN arrays[dest]["h"] :
        \E dt \in DtSet : StepCall("predictor", dest, d_idx, dt)

StepCorrector ==
    \E dest \in DOMAIN steppers : \E d_idx \in DOMAIN arrays[dest]["h"] :
        \E dt \in DtSet : StepCall("corrector", dest, d_idx, dt)

StepRates ==
    \E dest \in DOMAIN arrays, q \in Profiles :
        /\ arrays' = [arrays EXCEPT ![dest] = WithRates(@, q)]
        /\ count.ops < MaxOps
        /\ arrays' # arrays
        /\ last' = Op("rates", dest, -1, R(0))
        /\ count' = [ops |-> count.ops + 1]
        /\ UNCHANGED <<steppers, integrator, dt_cfl, ret, calls>>

StepNext == StepInitialize \/ StepPredictor \/ StepCorrector \/ StepRates

StepSpec == StepInit /\ [][StepNext]_vars

(***************************************************************************)
(* Properties of the stepper methods, checked under StepSpec.              *)
(***************************************************************************)
\* The fields a snapshot-style stepper advances, with the snapshot and the
\* rate that go with each.
Axes == <<"x", "y", "z">>
Velocity == [x |-> "u", y |-> "v", z |-> "w"]
Stress == {"s00", "s01", "s02", "s11", "s12", "s22"}
LiveOf == [WCSPHStep |-> {"x", "y", "z", "u", "v", "w", "rho"},
           SolidMechStep |-> {"x", "y", "z", "u", "v", "w", "rho", "e"}
                                \cup Stress]
SnapshotOf == [x |-> "x0", y |-> "y0", z |-> "z0", u |-> "u0", v |-> "v0",
               w |-> "w0", rho |-> "rho0", e |-> "e0", s00 |-> "s000",
               s01 |-> "s010", s02 |-> "s020", s11 |-> "s110",
               s12 |-> "s120", s22 |-> "s220"]
RateOf == [x |-> "ax", y |-> "ay", z |-> "az", u |-> "au", v |-> "av",
           w |-> "aw", rho |-> "arho", e |-> "ae", s00 |-> "as00",
           s01 |-> "as01", s02 |-> "as02", s11 |-> "as11", s12 |-> "as12",
           s22 |-> "as22"]
SnapshotStyle == {"WCSPHStep", "SolidMechStep"}

\* The step just taken is a call of `method` on a stepper of class cls.
IsCall(cls, method) ==
    /\ last'.op = method
    /\ count' # count
    /\ steppers[last'.dest] = cls

\* The state is the one right after such a call.
AfterCall(cls, method) ==
    /\ last.op = method
    /\ steppers[last.dest] = cls

\* C4: the EulerStep corrector sets u, v, w to old + dt*acceleration, then
\* x, y, z to old + dt*(the updated velocity), and rho to old + dt*arho;
\* the initialize and predictor of EulerStep change no array.
C4_EulerCorrector ==
    [][ /\ IsCall("EulerStep", "corrector") =>
             LET a == arrays[last'.dest]
                 b == arrays'[last'.dest]
                 i == last'.idx
                 dt == last'.dt
             IN  /\ \A k \in DOMAIN Axes :
                      LET xk == Axes[k]
                          uk == Velocity[xk]
                          unew == RAdd(a[uk][i], RMul(dt, a[RateOf[uk]][i]))
                      IN  /\ b[uk][i] = unew
                          /\ b[xk][i] = RAdd(a[xk][i], RMul(dt, unew))
                 /\ b["rho"][i] = RAdd(a["rho"][i], RMul(dt, a["arho"][i]))
        /\ (IsCall("EulerStep", "initialize") \/ IsCall("EulerStep", "predictor"))
             => arrays' = arrays
      ]_vars

\* An EulerStep corrector ran with a non-zero step on a particle with a
\* non-zero acceleration au.
C4_Witness ==
    /\ AfterCall("EulerStep", "corrector")
    /\ last.dt # R(0)
    /\ arrays[last.dest]["au"][last.idx] # R(0)
    /\ arrays[last.dest]["u"][last.idx] # R(0)

PositionFromVelocity(a, b, i, c, axes, vel) ==
    \A xk \in axes : b[xk][i] = RAdd(a[xk][i], RMul(c, b[vel[xk]][i]))

\* What C5 says of the steppers that add to the live position: the new
\* position is the old one plus a multiple of the velocity just written.
IncrementStyleC5 ==
    LET a == arrays[last'.dest]
        b == arrays'[last'.dest]
        i == last'.idx
        dt == last'.dt
        dtb2 == RMul(Half, dt)
    IN  /\ IsCall("EulerStep", "corrector") =>
              PositionFromVelocity(a, b, i, dt, {"x", "y", "z"}, Velocity)
        /\ (IsCall("AdamiVerletStep", "predictor")
              \/ IsCall("AdamiVerletStep", "corrector")) =>
              PositionFromVelocity(a, b, i, dtb2, {"x", "y"}, Velocity)
        /\ IsCall("TransportVelocityStep", "predictor") =>
              PositionFromVelocity(a, b, i, dt, {"x", "y"},
                                   [x |-> "uhat", y |-> "vhat"])

\* The step size a snapshot-style phase applies: 0.5*dt or dt.
PhaseStep(method, dt) == IF method = "predictor" THEN RMul(Half, dt) ELSE dt

\* C5 as stated: also the WCSPHStep and SolidMechStep predictor and
\* corrector set x = x0 + (0.5*dt or dt)*u with u the velocity just written.
C5_Original ==
    [][ /\ IncrementStyleC5
        /\ \A cls \in SnapshotStyle, m \in {"predictor", "corrector"} :
             IsCall(cls, m) =>
               LET b == arrays'[last'.dest]
                   i == last'.idx
               IN  \A k \in DOMAIN Axes :
                     b[Axes[k]][i] =
                       RAdd(b[SnapshotOf[Axes[k]]][i],
                            RMul(PhaseStep(m, last'.dt), b[Velocity[Axes[k]]][i]))
      ]_vars

\* C5, amended: EulerStep, AdamiVerletStep and TransportVelocityStep compute
\* the new position from the (transport) velocity just written; the
\* WCSPHStep and SolidMechStep predictor and corrector set
\* x = x0 + (0.5*dt or dt)*ax, with ax, ay, az the position rates.
C5_PositionUpdate ==
    [][ /\ IncrementStyleC5
        /\ \A cls \in SnapshotStyle, m \in {"predictor", "corrector"} :
             IsCall(cls, m) =>
               LET a == arrays[last'.dest]
                   b == arrays'[last'.dest]
                   i == last'.idx
               IN  \A k \in DOMAIN Axes :
                     b[Axes[k]][i] =
                       RAdd(a[SnapshotOf[Axes[k]]][i],
                            RMul(PhaseStep(m, last'.dt), a[RateOf[Axes[k]]][i]))
      ]_vars

\* A snapshot-style predictor or corrector ran with a non-zero step on a
\* particle whose position rate ax differs from its new velocity u.
C5_Witness ==
    /\ \E cls \in SnapshotStyle, m \in {"predictor", "corrector"} :
          AfterCall(cls, m)
    /\ last.dt # R(0)
    /\ arrays[last.dest]["ax"][last.idx] # arrays[last.dest]["u"][last.idx]
    /\ arrays[last.dest]["ax"][last.idx] # R(0)

\* predictor(dt) of class cls applied n times in succession at index i
RECURSIVE PredictorTimes(_, _, _, _, _)
PredictorTimes(n, cls, pa, i, dt) ==
    IF n = 0 THEN pa
    ELSE CallStepper(cls, "predictor",
                     PredictorTimes(n - 1, cls, pa, i, dt), i, dt)

\* C6 as stated: corrector(dt) gives what two predictor(dt/2) in succession
\* give, from the same snapshot and rates.
C6_Original ==
    [][ \A cls \in SnapshotStyle :
          IsCall(cls, "corrector") =>
            arrays'[last'.dest] =
              PredictorTimes(2, cls, arrays[last'.dest], last'.idx,
                             RMul(Half, last'.dt))
      ]_vars

\* C6, amended: corrector(dt) gives what predictor(2*dt) gives, applied
\* once or twice in succession, from the same snapshot and rates.
C6_CorrectorIsPredictorOfTwiceDt ==
    [][ \A cls \in SnapshotStyle :
          IsCall(cls, "corrector") =>
            \A n \in {1, 2} :
              arrays'[last'.dest] =
                PredictorTimes(n, cls, arrays[last'.dest], last'.idx,
                               RMul(R(2), last'.dt))
      ]_vars

\* A snapshot-style corrector ran with a non-zero step on a particle whose
\* rates au and arho are non-zero.
C6_Witness ==
    /\ \E cls \in SnapshotStyle : AfterCall(cls, "corrector")
    /\ last.dt # R(0)
    /\ arrays[last.dest]["au"][last.idx] # R(0)
    /\ arrays[last.dest]["arho"][last.idx] # R(0)

\* C7: WCSPHStep.initialize leaves the live fields as they are and copies
\* them to the snapshot; predictor with dt = 0 leaves every live field equal
\* to its snapshot, and, right after initialize on the same particle, equal
\* to its value before.
C7_ZeroStepPredictor ==
    [][ LET a == arrays[last'.dest]
            b == arrays'[last'.dest]
            i == last'.idx
            live == LiveOf["WCSPHStep"]
        IN  /\ IsCall("WCSPHStep", "initialize") =>
                 \A f \in live : b[f][i] = a[f][i] /\ b[SnapshotOf[f]][i] = a[f][i]
            /\ (IsCall("WCSPHStep", "predictor") /\ last'.dt = R(0)) =>
                 /\ \A f \in live : b[f][i] = b[SnapshotOf[f]][i]
                 /\ (last.op = "initialize" /\ last.dest = last'.dest
                       /\ last.idx = i) =>
                      \A f \in live : b[f][i] = a[f][i]
      ]_vars

\* WCSPHStep.predictor ran with dt = 0 right after initialize on the same
\* particle, whose rates au, ax and arho are non-zero.
C7_Witness ==
    /\ AfterCall("WCSPHStep", "predictor")
    /\ last.dt = R(0)
    /\ last.prev = <<"initialize", last.dest, last.idx>>
    /\ \A r \in {"au", "ax", "arho"} : arrays[last.dest][r][last.idx] # R(0)

\* C10: in WCSPHStep and SolidMechStep only initialize writes a snapshot
\* field; no phase writes a rate or an index other than d_idx; and after
\* corrector(dt) each live field is its snapshot plus dt times its rate.
C10_SnapshotFrame ==
    [][ \A cls \in SnapshotStyle :
          LET a == arrays[last'.dest]
              b == arrays'[last'.dest]
              i == last'.idx
          IN  /\ (IsCall(cls, "predictor") \/ IsCall(cls, "corrector")) =>
                   \A f \in LiveOf[cls] : b[SnapshotOf[f]] = a[SnapshotOf[f]]
              /\ (\E k \in DOMAIN Methods : IsCall(cls, Methods[k])) =>
                   /\ \A r \in RateProps \cap DOMAIN a : b[r] = a[r]
                   /\ \A f \in DOMAIN a : \A j \in DOMAIN a[f] \ {i} :
                        b[f][j] = a[f][j]
              /\ IsCall(cls, "corrector") =>
                   \A f \in LiveOf[cls] :
                     b[f][i] = RAdd(b[SnapshotOf[f]][i],
                                    RMul(last'.dt, b[RateOf[f]][i]))
      ]_vars

\* A SolidMechStep corrector ran with a non-zero step right after a
\* predictor on the same particle, whose energy rate is non-zero.
C10_Witness ==
    /\ AfterCall("SolidMechStep", "corrector")
    /\ last.dt # R(0)
    /\ last.prev = <<"predictor", last.dest, last.idx>>
    /\ arrays[last.dest]["ae"][last.idx] # R(0)
    /\ arrays[last.dest]["e"][last.idx] # arrays[last.dest]["e0"][last.idx]

(***************************************************************************)
(* The Integrator and the compiled integrator that SPHEval builds for it.  *)
(***************************************************************************)
\* Integrator.__init__: self.cfl = 0.5
cfl == Half

\* The particle arrays of the run, in the order of calc.particle_arrays.
ArrayNames == <<"fluid", "solid">>

\* The destinations of a stepper assignment, in the order of the compiled
\* integrator.
DestOrder(st) == SelectSeq(ArrayNames, LAMBDA d : d \in DOMAIN st)

NumParticles(pa) == Cardinality(DOMAIN pa["x"])

\* The compiled integrator built from the stepper assignment st.
Compiled(st) ==
    [kind |-> "Integrator", steppers |-> st, order |-> DestOrder(st)]

\* The per-particle loop of the compiled integrator for one generated call.
RECURSIVE LoopParticles(_, _, _, _, _)
LoopParticles(cls, method, pa, n, dt) ==
    IF n = 0 THEN pa
    ELSE CallStepper(cls, method,
                     LoopParticles(cls, method, pa, n - 1, dt), n - 1, dt)

\* One phase of the compiled integrator over the destinations order[1..k].
RECURSIVE RunPhase(_, _, _, _, _)
RunPhase(integ, run, method, k, dt) ==
    IF k = 0 THEN run
    ELSE LET before == RunPhase(integ, run, method, k - 1, dt)
             dest == integ.order[k]
             c == get_stepper_loop(integ.steppers, dest, method)
         IN  [arrays |->
                [before.arrays EXCEPT
                   ![dest] = LoopParticles(integ.steppers[c.obj], c.method, @,
                                           NumParticles(@), dt)],
              calls |-> Append(before.calls,
                               [dest |-> dest, obj |-> c.obj,
                                method |-> c.method])]

\* The compiled integrator's integrate: the phases Methods[1..m], each over
\* every destination.
RECURSIVE RunPhases(_, _, _, _)
RunPhases(integ, run, m, dt) ==
    IF m = 0 THEN run
    ELSE RunPhase(integ, RunPhases(integ, run, m - 1, dt), Methods[m],
                  Len(integ.order), dt)

CompiledIntegrate(integ, arrs, dt) ==
    RunPhases(integ, [arrays |-> arrs, calls |-> <<>>], Len(Methods), dt)

\* carray update_min_max / minimum: the least element.  An array without
\* elements reports a minimum that is below no number, so that it lowers
\* no hmin.
RECURSIVE MinUpTo(_, _)
MinUpTo(h, n) ==
    IF n = 1 THEN h[0]
    ELSE LET m == MinUpTo(h, n - 1) IN IF RLt(h[n - 1], m) THEN h[n - 1] ELSE m

Infinity == <<1, 0>>
Minimum(h) == IF DOMAIN h = {} THEN Infinity
              ELSE MinUpTo(h, Cardinality(DOMAIN h))

\* The loop of compute_time_step over particle_arrays[1..k], with `>` for
\* `<`.
RECURSIVE ScanArrays_Greater(_, _)
ScanArrays_Greater(arrs, k) ==
    IF k = 0 THEN [hmin |-> R(1), scanned |-> 0]
    ELSE LET s == ScanArrays_Greater(arrs, k - 1)
             h == arrs[ArrayNames[k]]["h"]
         IN  [hmin |-> IF RLt(s.hmin, Minimum(h)) THEN Minimum(h) ELSE s.hmin,
              scanned |-> s.scanned + 1]

\* The loop of compute_time_step over particle_arrays[1..k].
RECURSIVE ScanArrays(_, _)
ScanArrays(arrs, k) ==
    IF k = 0 THEN [hmin |-> R(1), scanned |-> 0]
    ELSE LET s == ScanArrays(arrs, k - 1)
             h == arrs[ArrayNames[k]]["h"]
         IN  [hmin |-> IF RLt(Minimum(h), s.hmin) THEN Minimum(h) ELSE s.hmin,
              scanned |-> s.scanned + 1]

\* compute_time_step with `dt_cfl < 0.0` for `dt_cfl <= 0.0`.
compute_time_step_Strict(arrs, rate, dt) ==
    IF RLt(rate, R(0))
    THEN [kind |-> "value", value |-> dt, scanned |-> 0]
    ELSE LET s == ScanArrays(arrs, Len(ArrayNames))
         IN  [kind |-> "value", value |-> RDiv(RMul(cfl, s.hmin), rate),
              scanned |-> s.scanned]

\* Integrator.compute_time_step, with self.integrator set.
compute_time_step(arrs, rate, dt) ==
    IF RLe(rate, R(0))
    THEN [kind |-> "value", value |-> dt, scanned |-> 0]
    ELSE LET s == ScanArrays(arrs, Len(ArrayNames))
         IN  [kind |-> "value", value |-> RDiv(RMul(cfl, s.hmin), rate),
              scanned |-> s.scanned]

AttributeError == [kind |-> "AttributeError"]
Returned == [kind |-> "None"]

(***************************************************************************)
(* Spec: an Integrator, the particle arrays, and the calls made on it.     *)
(***************************************************************************)
SpecClasses == {"EulerStep", "WCSPHStep", "SolidMechStep"}
HProfiles == {0, 1, 2}
DtCflSet == {R(-1), R(0), R(2)}
RequestedDt == {<<1, 4>>, R(3)}
\* replacements of a stepper in Integrator.steppers in one behaviour
MaxChanges == 1

\* Smoothing lengths 1/4, 3/4, 5/4, 7/4.
HValue(k, i, hp) == Norm(1 + ((i + 3 * k + hp) % 4) * 2, 4)

\* Every particle array of the run has every property that the stepper
\* classes of the run name: the model covers the configurations in which
\* each binding of get_array_setup finds its property.
ArrayProps == UNION {StepperProps(cls) : cls \in SpecClasses}

ParticleArray(props, n, k, hp) ==
    [f \in props |->
        [i \in 0 .. n - 1 |->
            IF f = "h" THEN HValue(k, i, hp) ELSE InitValue(f, i, k)]]

Init ==
    /\ steppers \in [{"fluid", "solid"} -> SpecClasses]
    /\ \E hp \in HProfiles, ns \in {0, NP - 1} :
          arrays = [fluid |-> ParticleArray(ArrayProps, NP, 0, hp),
                    solid |-> ParticleArray(ArrayProps, ns, 1, hp)]
    /\ integrator = NoIntegrator
    /\ dt_cfl \in DtCflSet
    /\ ret = Returned
    /\ calls = <<>>
    /\ last = [op |-> "init", dest |-> None, idx |-> -1, dt |-> R(0),
               prev |-> NoPrev]
    /\ count = [integrate |-> 0, changes |-> 0]

\* Integrator.set_integrator
set_integrator(compiled) == integrator' = compiled

\* SPHEval builds the compiled integrator from integrator.steppers and hands
\* it over with set_integrator.
setup_calc ==
    /\ last' = Call("setup_calc", None, R(0))
    /\ calls' = <<>>
    /\ set_integrator(Compiled(steppers))
    /\ ret' = Returned
    /\ UNCHANGED <<arrays, steppers, dt_cfl, count>>

\* integrator.steppers[dest] = cls(): nothing in Integrator notices it.
ChangeSteppers ==
    \E dest \in DOMAIN steppers : \E cls \in SpecClasses \ {steppers[dest]} :
        /\ count.changes < MaxChanges
        /\ steppers' = [steppers EXCEPT ![dest] = cls]
        /\ count' = [count EXCEPT !.changes = @ + 1]
        /\ last' = Call("steppers", dest, R(0))
        /\ ret' = Returned
        /\ calls' = <<>>
        /\ UNCHANGED <<arrays, integrator, dt_cfl>>

\* Integrator.integrate(time, dt, count): time and count are handed on and
\* play no part in the phases.
integrate ==
    \E dt \in DtSet \ {R(0)} :
        /\ last' = Call("integrate", None, dt)
        /\ UNCHANGED <<steppers, integrator, dt_cfl>>
        /\ IF integrator.kind = "None"
           THEN /\ ret' = AttributeError
                /\ calls' = <<>>
                /\ UNCHANGED <<arrays, count>>
           ELSE /\ count.integrate < MaxIntegrate
                /\ LET run == CompiledIntegrate(integrator, arrays, dt)
                   IN  /\ arrays' = run.arrays
                       /\ calls' = run.calls
                /\ ret' = Returned
                /\ count' = [count EXCEPT !.integrate = @ + 1]

\* Integrator.compute_time_step(dt)
ComputeTimeStep ==
    \E dt \in RequestedDt :
        /\ last' = Call("compute_time_step", None, dt)
        /\ ret' = IF integrator.kind = "None" THEN AttributeError
                  ELSE compute_time_step(arrays, dt_cfl, dt)
        /\ calls' = <<>>
        /\ UNCHANGED <<arrays, steppers, integrator, dt_cfl, count>>

Next == setup_calc \/ ChangeSteppers \/ integrate \/ ComputeTimeStep

Spec == Init /\ [][Next]_vars

(***************************************************************************)
(* Properties of the Integrator, checked under Spec.                       *)
(***************************************************************************)
PhaseNo(method) == CHOOSE k \in DOMAIN Methods : Methods[k] = method

\* The last call was an integrate that ran the compiled integrator.
Integrated == last.op = "integrate" /\ ret.kind = "None"

\* C1: one integrate calls each phase once on each destination's stepper,
\* every initialize before any predictor and every predictor before any
\* corrector, the destinations in the same order in each phase.
C1_PhaseBarrier ==
    Integrated =>
      LET n == Cardinality(DOMAIN steppers)
      IN  /\ Len(calls) = Len(Methods) * n
          /\ \A d \in DOMAIN steppers, k \in DOMAIN Methods :
               Cardinality({i \in DOMAIN calls :
                              /\ calls[i].dest = d
                              /\ calls[i].obj = d
                              /\ calls[i].method = Methods[k]}) = 1
          /\ \A i, j \in DOMAIN calls :
               i < j => PhaseNo(calls[i].method) <= PhaseNo(calls[j].method)
          /\ \A i \in 1 .. n, k \in DOMAIN Methods :
               calls[(k - 1) * n + i].dest = calls[i].dest

\* An integrate ran the three phases on two destinations, one of them with
\* a WCSPHStep.
C1_Witness ==
    /\ Integrated
    /\ Len(calls) = 6
    /\ integrator.steppers["fluid"] = "WCSPHStep"
    /\ arrays["fluid"]["x"] # arrays["fluid"]["x0"]

\* The smoothing lengths of every particle of every particle array.
AllH == UNION { {arrays[ArrayNames[k]]["h"][i] :
                   i \in DOMAIN arrays[ArrayNames[k]]["h"]} :
                k \in DOMAIN ArrayNames }

\* The least of 1.0 and every smoothing length.
LeastH == CHOOSE m \in AllH \cup {R(1)} : \A o \in AllH \cup {R(1)} : RLe(m, o)

ComputedTimeStep == last.op = "compute_time_step" /\ integrator.kind # "None"

\* C2: with dt_cfl > 0, compute_time_step returns cfl * h_min / dt_cfl,
\* h_min the least of 1.0 and the smoothing lengths of all particles.
C2_CourantTimeStep ==
    (ComputedTimeStep /\ RLt(R(0), dt_cfl)) =>
       /\ ret.kind = "value"
       /\ ret.value = RDiv(RMul(cfl, LeastH), dt_cfl)

\* compute_time_step ran with dt_cfl > 0, one particle array empty and a
\* smoothing length below 1.0 in another.
C2_Witness ==
    /\ ComputedTimeStep
    /\ RLt(R(0), dt_cfl)
    /\ DOMAIN arrays["solid"]["h"] = {}
    /\ RLt(LeastH, R(1))
    /\ ret.value = RDiv(RMul(cfl, LeastH), dt_cfl)
    /\ ret.value # RDiv(cfl, dt_cfl)

\* C3: with dt_cfl <= 0, compute_time_step returns the requested dt and
\* scans no particle array.
C3_NoRateFallback ==
    (ComputedTimeStep /\ RLe(dt_cfl, R(0))) =>
       /\ ret.kind = "value"
       /\ ret.value = last.dt
       /\ ret.scanned = 0

\* compute_time_step ran with dt_cfl = 0 and a smoothing length below 1.0.
C3_Witness ==
    /\ ComputedTimeStep
    /\ dt_cfl = R(0)
    /\ RLt(LeastH, R(1))
    /\ ret.value = last.dt

\* C8: integrate never runs a compiled integrator built from a stepper
\* assignment other than the current one.
C8_NeverStale == Integrated => integrator.steppers = steppers

====
